---- MODULE Spec2Model ----
(***************************************************************************)
(* Model of cloud/amazon/route53_zone.py: one run of main() against the    *)
(* Route53 provider.  The provider's hosted zones are the shared state;    *)
(* every provider call of main() is one atomic step of an invocation.      *)
(* The same task (module.params) is run by two invocations, one after the  *)
(* other (Spec) or interleaved (SpecConc).                                 *)
(***************************************************************************)
EXTENDS Naturals, Sequences, FiniteSets, TLC

VARIABLES
    mode,       \* "sequential": p2 runs after p1 has ended; "concurrent": interleaved
    params,     \* module.params of the task
    zones,      \* provider: the hosted zones, in the order the provider lists them
    nextKey,    \* provider: key of the next hosted zone it creates
    pc,         \* per invocation: position in main()
    results,    \* per invocation: results['HostedZones'] of list_hosted_zones()
    idx,        \* per invocation: position of the for loop in results
    zone_id,    \* per invocation: the local zone_id
    record,     \* per invocation: the local record (arguments of create_hosted_zone)
    out,        \* per invocation: what exit_json / fail_json reported
    calls,      \* per invocation (history): delegation-set lookups, creates and deletes issued
    zones0      \* per invocation (history): the provider's zones when the invocation listed them

vars == <<mode, params, zones, nextKey, pc, results, idx, zone_id, record, out, calls, zones0>>

----------------------------------------------------------------------------
(* Bounds *)

\* most hosted zones the provider holds initially (sequential runs)
MaxZones == 3
\* most hosted zones the provider holds initially (concurrent runs)
MaxConcZones == 2
\* zones on one page of list_hosted_zones (the provider's MaxItems, scaled down)
PageSize == 2

Procs == {"p1", "p2"}

\* Python's None for a string parameter
None == "None"

\* zone names are sequences of characters
RawNames == { <<"a">>, <<"a", ".">>, <<"B">> }
RemoteNames == { <<"a", ".">>, <<"b", ".">> }
VpcIds == {"v1", "v2"}
VpcRegions == {"r1"}
Comments == {"", "demo"}
\* reusable delegation sets the provider holds, and the ones a task may name
DelegationSets == {"d1"}
DelegationSetParams == {"d1", "d2"}

Requests ==
    [ zone : RawNames,
      state : {"present", "absent"},
      vpc_id : {None} \cup VpcIds,
      vpc_region : {None} \cup VpcRegions,
      comment : Comments,
      delegation_set : {None} \cup DelegationSetParams ]

----------------------------------------------------------------------------
(* Python helpers *)

\* truth value of an optional string ('if x:')
Truthy(s) == s # None /\ s # ""

Lower(c) == CASE c = "A" -> "a" [] c = "B" -> "b" [] OTHER -> c

\* str.lower()
LowerStr(s) == [i \in 1..Len(s) |-> Lower(s[i])]

\* lines 154, 161-162: zone_in
Normalize(z) ==
    LET l == LowerStr(z)
    IN  IF Len(l) = 0 \/ l[Len(l)] # "." THEN Append(l, ".") ELSE l

\* provider identifiers are a path prefix and a key; str.replace(prefix, '')
StripPrefix(id, prefix) == IF id.prefix = prefix THEN [id EXCEPT !.prefix = ""] ELSE id

HostedZonePrefix == "/hostedzone/"
DelegationSetPrefix == "/delegationset/"

\* zone_id = None
NoZoneId == [prefix |-> "", key |-> 0]

\* 'if zone_id'
HasZoneId(z) == z # NoZoneId

----------------------------------------------------------------------------
(* The provider (Route53 as the module's calls see it) *)

\* a dict key that is present only when cond holds
Opt(cond, key, val) == IF cond THEN key :> val ELSE [k \in {} |-> val]

NameServers == <<"ns-1", "ns-2">>

IsPrivate(z) == z.vpcs # <<>>

ZoneId(z) == [prefix |-> HostedZonePrefix, key |-> z.key]

\* the 'HostedZone' element of a provider response
HostedZoneElem(z) ==
    [ Id |-> ZoneId(z),
      Name |-> z.name,
      Config |-> ([PrivateZone |-> IsPrivate(z)] @@ Opt(z.comment # "", "Comment", z.comment)),
      ResourceRecordSetCount |-> 2 ]

\* the 'DelegationSet' element: name servers, and the Id of a reusable set
DelegationSetElem(z) ==
    [NameServers |-> NameServers]
        @@ Opt(z.dsid # "", "Id", [prefix |-> DelegationSetPrefix, key |-> z.dsid])

\* line 176: route53.list_hosted_zones() answers with its first page only
ListHostedZonesPage(zs) ==
    LET n == IF Len(zs) < PageSize THEN Len(zs) ELSE PageSize
    IN  [i \in 1..n |-> [Id |-> ZoneId(zs[i]), Name |-> zs[i].name]]

\* the provider accepts an Id with or without its path prefix
ZoneExists(zs, id) == \E i \in 1..Len(zs) : zs[i].key = id.key

ZoneOf(zs, id) == zs[CHOOSE i \in 1..Len(zs) : zs[i].key = id.key]

\* lines 181, 211: route53.get_hosted_zone(Id=...) of an existing zone; a public
\* zone carries 'DelegationSet' and no 'VPCs', a private zone 'VPCs' and no
\* 'DelegationSet'
GetHostedZone(zs, id) ==
    LET z == ZoneOf(zs, id)
    IN  [HostedZone |-> HostedZoneElem(z)]
            @@ Opt(~IsPrivate(z), "DelegationSet", DelegationSetElem(z))
            @@ Opt(IsPrivate(z), "VPCs", z.vpcs)

\* line 238: the zone route53.create_hosted_zone(Name=name, **rec) adds
NewZone(key, name, rec) ==
    [ key |-> key,
      name |-> name,
      comment |-> IF "HostedZoneConfig" \in DOMAIN rec THEN rec.HostedZoneConfig.Comment ELSE "",
      vpcs |-> IF "VPC" \in DOMAIN rec THEN <<rec.VPC>> ELSE <<>>,
      dsid |-> IF "DelegationSetId" \in DOMAIN rec THEN rec.DelegationSetId.key ELSE "" ]

LocationPrefix == "https://route53.amazonaws.com/2013-04-01/hostedzone/"

\* line 238: what create_hosted_zone answers
CreateHostedZoneResponse(z) ==
    [ HostedZone |-> HostedZoneElem(z),
      Location |-> [prefix |-> LocationPrefix, key |-> z.key] ]
        @@ Opt(~IsPrivate(z), "DelegationSet", DelegationSetElem(z))
        @@ Opt(IsPrivate(z), "VPC", z.vpcs[1])

\* line 264: route53.delete_hosted_zone(Id=...)
DeleteHostedZone(zs, id) == SelectSeq(zs, LAMBDA z : z.key # id.key)

\* line 202: how route53.get_reusable_delegation_set(Id=...) can end
LookupOutcomes(id) ==
    IF id.key \in DelegationSets THEN {"ok", "ClientError"}
    ELSE {"NoSuchDelegationSet", "ClientError"}

\* line 238: how route53.create_hosted_zone can end
CreateOutcomes == {"ok", "ClientError"}

----------------------------------------------------------------------------
(* Locals of main() *)

state == params.state
vpc_id == params.vpc_id
vpc_region == params.vpc_region
comment == params.comment

\* lines 154-162
zone_in == Normalize(params.zone)

private_zone_IdOnly == vpc_id # None /\ vpc_region = None

\* line 164
private_zone == vpc_id # None /\ vpc_region # None

\* line 200: delegation_set after "/delegationset/{0}".format(delegation_set)
delegation_set == [prefix |-> DelegationSetPrefix, key |-> params.delegation_set]

\* lines 182-185: whether the loop breaks on this zone
ScopeMatches(details, vpc) ==
    \/ /\ Truthy(vpc)
       /\ "VPCs" \in DOMAIN details
       /\ \E i \in 1..Len(details.VPCs) : details.VPCs[i].VPCId = vpc
    \/ /\ ~Truthy(vpc)
       /\ "VPCs" \notin DOMAIN details

\* lines 178-179: the next listed zone at or after position i whose name is
\* name, 0 when there is none
NextNamed(res, i, name) ==
    LET js == {j \in i..Len(res) : res[j].Name = name}
    IN  IF js = {} THEN 0 ELSE CHOOSE j \in js : \A k \in js : j <= k

BaseRecord_NoComment(p) ==
    [CallerReference |-> p]
        @@ Opt(private_zone, "VPC", [VPCId |-> vpc_id, VPCRegion |-> vpc_region])

BaseRecord_NoVPC(p) ==
    [CallerReference |-> p]
        @@ Opt(Truthy(comment), "HostedZoneConfig", [Comment |-> comment])

\* lines 189-195: record before the delegation set is added
BaseRecord(p) ==
    [CallerReference |-> p]
        @@ Opt(Truthy(comment), "HostedZoneConfig", [Comment |-> comment])
        @@ Opt(private_zone, "VPC", [VPCId |-> vpc_id, VPCRegion |-> vpc_region])

\* line 232: the vpcs of a result
ResultVpcs(vs) == [i \in 1..Len(vs) |-> [id |-> vs[i].VPCId, region |-> vs[i].VPCRegion]]

\* lines 212-232: the result of an existing zone, before delegation_set
ExistingResult(details) ==
    [ zone_id |-> StripPrefix(details.HostedZone.Id, HostedZonePrefix),
      name |-> details.HostedZone.Name,
      private_zone |-> details.HostedZone.Config.PrivateZone,
      resource_record_set_count |-> details.HostedZone.ResourceRecordSetCount ]
        @@ Opt("Comment" \in DOMAIN details.HostedZone.Config, "comment",
               IF "Comment" \in DOMAIN details.HostedZone.Config
               THEN details.HostedZone.Config.Comment ELSE "")
        @@ Opt("DelegationSet" \in DOMAIN details, "name_servers",
               IF "DelegationSet" \in DOMAIN details
               THEN <<details.DelegationSet.NameServers>> ELSE <<>>)
        @@ Opt("VPCs" \in DOMAIN details, "vpcs",
               IF "VPCs" \in DOMAIN details THEN ResultVpcs(details.VPCs) ELSE <<>>)

Running == [kind |-> "running"]
ExitJson(changed) == [kind |-> "exit", changed |-> changed]
ExitJsonResult(changed, result) == [kind |-> "exit", changed |-> changed, result |-> result]
FailJson(msg) == [kind |-> "fail", msg |-> msg]
\* an exception main() does not catch ends the invocation
Uncaught(exc) == [kind |-> "crash", msg |-> exc]

\* lines 210-234: how main() ends for state=present and an existing zone
ExistingOutcome(details) ==
    IF Truthy(params.delegation_set)
    THEN IF "DelegationSet" \notin DOMAIN details
         THEN Uncaught("KeyError")
         ELSE IF \/ "Id" \notin DOMAIN details.DelegationSet
                 \/ details.DelegationSet.Id # delegation_set
              THEN FailJson("Cannot change the delegation set for an existing zone")
              ELSE ExitJsonResult(FALSE,
                      ExistingResult(details)
                          @@ [delegation_set |->
                                 StripPrefix(details.DelegationSet.Id, DelegationSetPrefix)])
    ELSE ExitJsonResult(FALSE, ExistingResult(details))

\* lines 242-259: the result of a created zone ('VPCs' is never a key of the
\* provider's answer to a create, which names the zone's 'VPC')
CreatedResult(cr) ==
    [ zone_id |-> StripPrefix(cr.HostedZone.Id, HostedZonePrefix),
      name |-> cr.HostedZone.Name,
      private_zone |-> cr.HostedZone.Config.PrivateZone,
      resource_record_set_count |-> cr.HostedZone.ResourceRecordSetCount,
      location |-> cr.Location ]
        @@ Opt("Comment" \in DOMAIN cr.HostedZone.Config, "comment",
               IF "Comment" \in DOMAIN cr.HostedZone.Config
               THEN cr.HostedZone.Config.Comment ELSE "")
        @@ Opt("DelegationSet" \in DOMAIN cr, "name_servers",
               IF "DelegationSet" \in DOMAIN cr THEN <<cr.DelegationSet.NameServers>> ELSE <<>>)
        @@ Opt("DelegationSet" \in DOMAIN cr /\ "Id" \in DOMAIN cr.DelegationSet, "delegation_set",
               IF "DelegationSet" \in DOMAIN cr /\ "Id" \in DOMAIN cr.DelegationSet
               THEN StripPrefix(cr.DelegationSet.Id, DelegationSetPrefix) ELSE NoZoneId)
        @@ Opt("VPCs" \in DOMAIN cr, "vpcs",
               IF "VPCs" \in DOMAIN cr THEN ResultVpcs(cr.VPCs) ELSE <<>>)

----------------------------------------------------------------------------
(* Initial states *)

\* what a hosted zone of the provider can look like before the task runs
ZoneKinds ==
    [ name : RemoteNames,
      vpcs : {<<>>} \cup {<<[VPCId |-> "v1", VPCRegion |-> "r1"]>>},
      dsid : {"", "d1"} ]

\* a private zone has no reusable delegation set
ValidKinds == {k \in ZoneKinds : k.vpcs # <<>> => k.dsid = ""}

InitialZones(max) ==
    UNION { { [i \in 1..n |-> [key |-> i, name |-> ks[i].name, comment |-> "",
                               vpcs |-> ks[i].vpcs, dsid |-> ks[i].dsid]]
              : ks \in [1..n -> ValidKinds] }
            : n \in 0..max }

InitLocals ==
    /\ params \in Requests
    /\ nextKey = Len(zones) + 1
    /\ pc = [p \in Procs |-> "start"]
    /\ results = [p \in Procs |-> <<>>]
    /\ idx = [p \in Procs |-> 1]
    /\ zone_id = [p \in Procs |-> NoZoneId]
    /\ record = [p \in Procs |-> [CallerReference |-> p]]
    /\ out = [p \in Procs |-> Running]
    /\ calls = [p \in Procs |-> <<>>]
    /\ zones0 = [p \in Procs |-> <<>>]

Init ==
    /\ mode = "sequential"
    /\ zones \in InitialZones(MaxZones)
    /\ InitLocals

InitConc ==
    /\ mode = "concurrent"
    /\ zones \in InitialZones(MaxConcZones)
    /\ InitLocals

----------------------------------------------------------------------------
(* The steps of main() *)

\* the invocations that run before p when the task is run sequentially
Earlier(p) == IF p = "p2" THEN {"p1"} ELSE {}

CanStart(p) == mode = "concurrent" \/ \A q \in Earlier(p) : pc[q] = "done"

\* the invocation ends with exit_json, fail_json or an uncaught exception
End(p, o) ==
    /\ pc' = [pc EXCEPT ![p] = "done"]
    /\ out' = [out EXCEPT ![p] = o]

\* lines 154-176: read the parameters, connect, list the hosted zones
ListHostedZones(p) ==
    /\ pc[p] = "start"
    /\ CanStart(p)
    /\ results' = [results EXCEPT ![p] = ListHostedZonesPage(zones)]
    /\ zones0' = [zones0 EXCEPT ![p] = zones]
    /\ pc' = [pc EXCEPT ![p] = "loop"]
    /\ UNCHANGED <<mode, params, zones, nextKey, idx, zone_id, record, out, calls>>

LoopElse_Stale(p) == zone_id[p]

\* lines 186-187: the else clause of the loop: zone_id = None
LoopElse(p) == NoZoneId

\* lines 178-187: the loop up to its next get_hosted_zone call, or to its end
LoopStep(p) ==
    /\ pc[p] = "loop"
    /\ LET j == NextNamed(results[p], idx[p], zone_in)
           zid == StripPrefix(results[p][j].Id, HostedZonePrefix)
       IN  IF j = 0
           THEN \* the loop ends without a break: the else clause
                /\ zone_id' = [zone_id EXCEPT ![p] = LoopElse(p)]
                /\ pc' = [pc EXCEPT ![p] = "deleg"]
                /\ UNCHANGED <<idx, out>>
           ELSE IF ~ZoneExists(zones, zid)
           THEN \* get_hosted_zone raises, and nothing catches it
                /\ zone_id' = [zone_id EXCEPT ![p] = zid]
                /\ End(p, Uncaught("NoSuchHostedZone"))
                /\ UNCHANGED idx
           ELSE IF ScopeMatches(GetHostedZone(zones, zid), vpc_id)
           THEN \* break
                /\ zone_id' = [zone_id EXCEPT ![p] = zid]
                /\ pc' = [pc EXCEPT ![p] = "deleg"]
                /\ UNCHANGED <<idx, out>>
           ELSE /\ zone_id' = [zone_id EXCEPT ![p] = zid]
                /\ idx' = [idx EXCEPT ![p] = j + 1]
                /\ UNCHANGED <<pc, out>>
    /\ UNCHANGED <<mode, params, zones, nextKey, results, record, calls, zones0>>

LookupFailure_Swallowed(o) == ExitJson(FALSE)

\* lines 203-207: how main() ends when the delegation-set lookup raises
LookupFailure(o) ==
    IF o = "NoSuchDelegationSet"
    THEN FailJson("The specified delegation set was not found")
    ELSE FailJson("get_reusable_delegation_set: ClientError")

\* lines 189-208: build record; validate and look up the delegation set
DelegationSetStep(p) ==
    /\ pc[p] = "deleg"
    /\ IF ~Truthy(params.delegation_set)
       THEN /\ record' = [record EXCEPT ![p] = BaseRecord(p)]
            /\ pc' = [pc EXCEPT ![p] = "branch"]
            /\ UNCHANGED <<out, calls>>
       ELSE IF private_zone
       THEN /\ record' = [record EXCEPT ![p] = BaseRecord(p)]
            /\ End(p, FailJson("Cannot specify delegation_set for private zone"))
            /\ UNCHANGED calls
       ELSE \E o \in LookupOutcomes(delegation_set) :
            /\ calls' = [calls EXCEPT ![p] =
                            Append(@, [op |-> "get_reusable_delegation_set",
                                       Id |-> delegation_set, answer |-> o])]
            /\ IF o = "ok"
               THEN /\ record' = [record EXCEPT ![p] =
                                     BaseRecord(p) @@ [DelegationSetId |-> delegation_set]]
                    /\ pc' = [pc EXCEPT ![p] = "branch"]
                    /\ UNCHANGED out
               ELSE /\ record' = [record EXCEPT ![p] = BaseRecord(p)]
                    /\ End(p, LookupFailure(o))
    /\ UNCHANGED <<mode, params, zones, nextKey, results, idx, zone_id, zones0>>

\* lines 210-234: state=present and the zone exists
PresentExisting(p) ==
    /\ pc[p] = "branch"
    /\ state = "present"
    /\ HasZoneId(zone_id[p])
    /\ IF ZoneExists(zones, zone_id[p])
       THEN End(p, ExistingOutcome(GetHostedZone(zones, zone_id[p])))
       ELSE End(p, Uncaught("NoSuchHostedZone"))
    /\ UNCHANGED <<mode, params, zones, nextKey, results, idx, zone_id, record, calls, zones0>>

\* lines 236-261: state=present and no zone was found
PresentCreate(p) ==
    /\ pc[p] = "branch"
    /\ state = "present"
    /\ ~HasZoneId(zone_id[p])
    /\ \E o \in CreateOutcomes :
          /\ calls' = [calls EXCEPT ![p] =
                          Append(@, [op |-> "create_hosted_zone", Name |-> zone_in,
                                     record |-> record[p], answer |-> o])]
          /\ IF o = "ok"
             THEN LET z == NewZone(nextKey, zone_in, record[p])
                  IN  /\ zones' = Append(zones, z)
                      /\ nextKey' = nextKey + 1
                      /\ End(p, ExitJsonResult(TRUE,
                                    CreatedResult(CreateHostedZoneResponse(z))))
             ELSE /\ End(p, FailJson("create_hosted_zone: ClientError"))
                  /\ UNCHANGED <<zones, nextKey>>
    /\ UNCHANGED <<mode, params, results, idx, zone_id, record, zones0>>

\* lines 263-265: state=absent and the zone exists
AbsentDelete(p) ==
    /\ pc[p] = "branch"
    /\ state = "absent"
    /\ HasZoneId(zone_id[p])
    /\ calls' = [calls EXCEPT ![p] =
                    Append(@, [op |-> "delete_hosted_zone", Id |-> zone_id[p],
                               answer |-> IF ZoneExists(zones, zone_id[p])
                                          THEN "ok" ELSE "NoSuchHostedZone"])]
    /\ IF ZoneExists(zones, zone_id[p])
       THEN /\ zones' = DeleteHostedZone(zones, zone_id[p])
            /\ End(p, ExitJson(TRUE))
       ELSE /\ End(p, Uncaught("NoSuchHostedZone"))
            /\ UNCHANGED zones
    /\ UNCHANGED <<mode, params, nextKey, results, idx, zone_id, record, zones0>>

\* lines 267-268: state=absent and no zone was found
AbsentNoop(p) ==
    /\ pc[p] = "branch"
    /\ state = "absent"
    /\ ~HasZoneId(zone_id[p])
    /\ End(p, ExitJson(FALSE))
    /\ UNCHANGED <<mode, params, zones, nextKey, results, idx, zone_id, record, calls, zones0>>

Next ==
    \E p \in Procs :
        \/ ListHostedZones(p)
        \/ LoopStep(p)
        \/ DelegationSetStep(p)
        \/ PresentExisting(p)
        \/ PresentCreate(p)
        \/ AbsentDelete(p)
        \/ AbsentNoop(p)

\* the task run twice, the second run after the first has ended
Spec == Init /\ [][Next]_vars

\* the task run by two invocations at once
SpecConc == InitConc /\ [][Next]_vars

----------------------------------------------------------------------------
(* Vocabulary of the properties *)

\* a remote zone has the requested name and privacy scope
MatchesRequest(z) ==
    /\ z.name = zone_in
    /\ IF vpc_id # None
       THEN \E i \in 1..Len(z.vpcs) : z.vpcs[i].VPCId = vpc_id
       ELSE z.vpcs = <<>>

MatchingZones(zs) == {i \in 1..Len(zs) : MatchesRequest(zs[i])}

CallsOf(p, ops) == SelectSeq(calls[p], LAMBDA c : c.op \in ops)
Lookups(p) == CallsOf(p, {"get_reusable_delegation_set"})
Creates(p) == CallsOf(p, {"create_hosted_zone"})
Deletes(p) == CallsOf(p, {"delete_hosted_zone"})
Mutating(p) == CallsOf(p, {"create_hosted_zone", "delete_hosted_zone"})

Done(p) == pc[p] = "done"

\* p has ended and, in a sequential run, no later invocation has started
JustEnded(p) == Done(p) /\ \A q \in Procs : p \in Earlier(q) => pc[q] = "start"

\* the loop of p is over and main() went on
PastLoop(p) == pc[p] \in {"deleg", "branch"} \/ (Done(p) /\ out[p].kind # "crash")

\* no delegation set was asked for, or its lookup succeeded
DelegationSetPassed(p) ==
    \/ params.delegation_set = None
    \/ \E i \in 1..Len(calls[p]) :
          calls[p][i].op = "get_reusable_delegation_set" /\ calls[p][i].answer = "ok"

LookupFailed(p) ==
    \E i \in 1..Len(calls[p]) :
        calls[p][i].op = "get_reusable_delegation_set" /\ calls[p][i].answer # "ok"

----------------------------------------------------------------------------
(* C1 *)

\* C1: a state=present request (no delegation set) whose normalized name and
\* privacy scope are those of an existing remote zone reports changed=false
\* with result.name the normalized name, issues no create or delete call and
\* leaves the remote zones as they were.
C1_ExistingZoneIsNoOp ==
    \A p \in Procs :
        ( /\ JustEnded(p)
          /\ state = "present"
          /\ params.delegation_set = None
          /\ MatchingZones(zones0[p]) # {} )
        => /\ out[p].kind = "exit"
           /\ out[p].changed = FALSE
           /\ "result" \in DOMAIN out[p]
           /\ out[p].result.name = zone_in
           /\ Mutating(p) = <<>>
           /\ zones = zones0[p]

----------------------------------------------------------------------------
(* C7 *)

\* C7: a remote zone with the requested name and privacy scope is found
\* wherever the provider lists it, on the first page or a later one: after the
\* loop zone_id names such a zone, so (no delegation set requested) a
\* state=present request reports changed=false and creates nothing, and a
\* state=absent request deletes a matching zone.
C7_FindsZoneOnAnyPage ==
    \A p \in Procs :
        ( PastLoop(p) /\ MatchingZones(zones0[p]) # {} )
        => /\ HasZoneId(zone_id[p])
           /\ \E i \in MatchingZones(zones0[p]) : zones0[p][i].key = zone_id[p].key
           /\ ( Done(p) /\ params.delegation_set = None /\ state = "present" )
                 => ( out[p].kind = "exit" /\ out[p].changed = FALSE /\ Creates(p) = <<>> )
           /\ ( Done(p) /\ params.delegation_set = None /\ state = "absent" )
                 => ( out[p] = ExitJson(TRUE) /\ Len(Deletes(p)) = 1 )

----------------------------------------------------------------------------
(* C3 *)

\* C3: a state=absent request that matches an existing remote zone deletes
\* exactly that zone by its ID and reports changed=true with no zone payload;
\* the same request run again afterwards reports changed=false and issues no
\* delete call.  (Stated for the requests that name no delegation set and
\* match exactly one remote zone.)
C3_DeleteThenNoop ==
    \A p, q \in Procs :
        ( /\ p \in Earlier(q)
          /\ mode = "sequential"
          /\ state = "absent"
          /\ params.delegation_set = None
          /\ Cardinality(MatchingZones(zones0[p])) = 1
          /\ Done(p) )
        => /\ out[p] = ExitJson(TRUE)
           /\ Creates(p) = <<>>
           /\ Len(Deletes(p)) = 1
           /\ \E i \in MatchingZones(zones0[p]) :
                 /\ Deletes(p)[1].Id.key = zones0[p][i].key
                 /\ JustEnded(p) =>
                       zones = SelectSeq(zones0[p], LAMBDA z : z.key # zones0[p][i].key)
           /\ Done(q) => ( out[q] = ExitJson(FALSE) /\ Deletes(q) = <<>> )

----------------------------------------------------------------------------
(* C5 *)

\* a public and a private zone of the requested name, the private one
\* associated with VPC v
PublicAndPrivate(zs, v) ==
    \E i, j \in 1..Len(zs) :
        /\ zs[i].name = zone_in /\ zs[i].vpcs = <<>>
        /\ zs[j].name = zone_in
        /\ \E k \in 1..Len(zs[j].vpcs) : zs[j].vpcs[k].VPCId = v

\* C5: with a public zone and a zone private to VPC v of the same name, a
\* request with vpc_id=v selects the private zone and a request with no vpc_id
\* the public one, wherever the provider lists them; a state=absent request
\* then deletes the selected zone and no other, and a zone whose name matches
\* but whose privacy scope does not counts as not found.
C5_SelectsZoneOfRequestedScope ==
    \A p \in Procs :
        /\ ( /\ PastLoop(p)
             /\ \E v \in VpcIds : PublicAndPrivate(zones0[p], v) /\ vpc_id \in {None, v} )
           => /\ HasZoneId(zone_id[p])
              /\ \E i \in MatchingZones(zones0[p]) :
                    /\ zones0[p][i].key = zone_id[p].key
                    /\ ( JustEnded(p) /\ state = "absent" /\ params.delegation_set = None )
                       => zones = SelectSeq(zones0[p], LAMBDA z : z.key # zones0[p][i].key)
        /\ ( PastLoop(p) /\ MatchingZones(zones0[p]) = {} ) => ~HasZoneId(zone_id[p])

\* the part of C5 the code keeps: the zone the loop selects has the requested
\* name and privacy scope, only that zone is ever deleted, and without such a
\* zone nothing is selected
ScopeSafety ==
    \A p \in Procs :
        /\ ( mode = "sequential" /\ PastLoop(p) /\ HasZoneId(zone_id[p]) )
           => \E i \in MatchingZones(zones0[p]) : zones0[p][i].key = zone_id[p].key
        /\ ( mode = "sequential" /\ PastLoop(p) /\ MatchingZones(zones0[p]) = {} )
           => ~HasZoneId(zone_id[p])
        /\ \A i \in 1..Len(Deletes(p)) : Deletes(p)[i].Id = zone_id[p]

----------------------------------------------------------------------------
(* C9 *)

\* C9: a state=present request that matches an existing zone and names a
\* delegation set the provider holds fails with 'Cannot change the delegation
\* set for an existing zone', without a mutating call, when the zone's
\* delegation set ID is another one or the zone has none; when it is the same,
\* the request reports changed=false and the returned delegation_set and
\* zone_id carry no path prefix.
C9_DelegationSetOfExistingZone ==
    \A p \in Procs :
        ( /\ Done(p)
          /\ state = "present"
          /\ params.delegation_set # None
          /\ DelegationSetPassed(p)
          /\ MatchingZones(zones0[p]) # {} )
        => /\ HasZoneId(zone_id[p])
           /\ ZoneExists(zones0[p], zone_id[p])
           /\ IF ZoneOf(zones0[p], zone_id[p]).dsid # params.delegation_set
              THEN /\ out[p] = FailJson("Cannot change the delegation set for an existing zone")
                   /\ Mutating(p) = <<>>
              ELSE /\ out[p].kind = "exit"
                   /\ out[p].changed = FALSE
                   /\ out[p].result.delegation_set = [prefix |-> "", key |-> params.delegation_set]
                   /\ out[p].result.zone_id = [prefix |-> "", key |-> zone_id[p].key]

----------------------------------------------------------------------------
(* C2 *)

\* the one create call of p is for the normalized name and carries the
\* requested comment and, for a private zone, the requested VPC; p deletes nothing
OneCreateCall(p) ==
    /\ Len(Creates(p)) = 1
    /\ Deletes(p) = <<>>
    /\ Creates(p)[1].Name = zone_in
    /\ Truthy(comment) =>
          /\ "HostedZoneConfig" \in DOMAIN Creates(p)[1].record
          /\ Creates(p)[1].record.HostedZoneConfig.Comment = comment
    /\ private_zone =>
          /\ "VPC" \in DOMAIN Creates(p)[1].record
          /\ Creates(p)[1].record.VPC = [VPCId |-> vpc_id, VPCRegion |-> vpc_region]

\* p reports changed=true with zone_id, location and the requested comment,
\* and the remote zones are those p listed plus the created one
CreatedOneZone(p) ==
    /\ out[p].kind = "exit"
    /\ out[p].changed = TRUE
    /\ "result" \in DOMAIN out[p]
    /\ {"zone_id", "location"} \subseteq DOMAIN out[p].result
    /\ Truthy(comment) =>
          ( "comment" \in DOMAIN out[p].result /\ out[p].result.comment = comment )
    /\ Len(zones) = Len(zones0[p]) + 1
    /\ SubSeq(zones, 1, Len(zones0[p])) = zones0[p]
    /\ zones[Len(zones)].name = zone_in
    /\ zones[Len(zones)].key = out[p].result.zone_id.key
    /\ zones[Len(zones)].comment = comment
    /\ zones[Len(zones)].vpcs =
          IF private_zone THEN <<[VPCId |-> vpc_id, VPCRegion |-> vpc_region]>> ELSE <<>>

----------------------------------------------------------------------------
(* C4 *)

\* C4 as claimed: every state=absent request without a matching remote zone
\* returns changed=false and issues no create or delete call.
C4_Original ==
    \A p \in Procs :
        ( Done(p) /\ state = "absent" /\ MatchingZones(zones0[p]) = {} )
        => ( out[p] = ExitJson(FALSE) /\ Mutating(p) = <<>> )

\* C4, amended: every state=absent request without a matching remote zone
\* issues no create or delete call and leaves the zones alone; it returns
\* changed=false when its delegation-set step passes (none requested, or a
\* public request whose lookup succeeds) and fails in that step otherwise.
C4_AbsentWithoutMatch ==
    \A p \in Procs :
        ( JustEnded(p) /\ state = "absent" /\ MatchingZones(zones0[p]) = {} )
        => /\ Mutating(p) = <<>>
           /\ zones = zones0[p]
           /\ IF DelegationSetPassed(p)
              THEN out[p] = ExitJson(FALSE)
              ELSE out[p].kind = "fail"

\* changed=false for a request with vpc_id, comment and delegation_set, while
\* a zone of the name but of the other privacy scope exists
C4_Witness ==
    \E p \in Procs :
        /\ Done(p) /\ state = "absent" /\ MatchingZones(zones0[p]) = {}
        /\ \E i \in 1..Len(zones0[p]) : zones0[p][i].name = zone_in
        /\ vpc_id # None /\ comment # "" /\ params.delegation_set # None
        /\ out[p] = ExitJson(FALSE)

----------------------------------------------------------------------------
(* C6 *)

PrivateZoneFailure == FailJson("Cannot specify delegation_set for private zone")

----------------------------------------------------------------------------
(* C8 *)

\* C8: when the delegation-set lookup fails, the invocation has ended with a
\* failure, the lookup is the only call it issued (no retry, no create, no
\* delete) and the remote zones are unchanged, for state=present and
\* state=absent, with or without a matching zone.
C8_LookupFailureAborts ==
    \A p \in Procs :
        LookupFailed(p)
        => /\ Done(p)
           /\ out[p].kind = "fail"
           /\ Lookups(p)[1].answer = "NoSuchDelegationSet"
                 => out[p].msg = "The specified delegation set was not found"
           /\ Len(calls[p]) = 1
           /\ JustEnded(p) => zones = zones0[p]

\* a state=absent request that found its zone and whose delegation set the
\* provider does not hold
C8_Witness ==
    \E p \in Procs :
        /\ LookupFailed(p)
        /\ Lookups(p)[1].answer = "NoSuchDelegationSet"
        /\ state = "absent"
        /\ HasZoneId(zone_id[p])
        /\ zones = zones0[p]

----------------------------------------------------------------------------
(* C10 *)

\* both invocations listed the same remote zones, none of them matching
ListedTogether(p, q) ==
    /\ p # q
    /\ pc[p] # "start" /\ pc[q] # "start"
    /\ zones0[p] = zones0[q]
    /\ MatchingZones(zones0[p]) = {}

\* the zone p reports as created is a remote zone of the requested name and
\* privacy scope
CreatedZoneIn(zs, p) ==
    \E i \in 1..Len(zs) :
        /\ zs[i].key = out[p].result.zone_id.key
        /\ zs[i].name = zone_in
        /\ zs[i].vpcs =
              IF private_zone THEN <<[VPCId |-> vpc_id, VPCRegion |-> vpc_region]>> ELSE <<>>

\* C10: two state=present invocations that both list the zones before either
\* creates, and find no match, both issue a create call; when the provider
\* accepts both, both report changed=true and two remote zones of the same name
\* and privacy scope exist.
C10_RaceCreatesTwoZones ==
    \A p, q \in Procs :
        ( /\ mode = "concurrent"
          /\ state = "present"
          /\ ListedTogether(p, q)
          /\ Done(p) /\ Done(q)
          /\ DelegationSetPassed(p) /\ DelegationSetPassed(q) )
        => /\ Len(Creates(p)) = 1 /\ Len(Creates(q)) = 1
           /\ ( Creates(p)[1].answer = "ok" /\ Creates(q)[1].answer = "ok" )
              => /\ out[p].kind = "exit" /\ out[p].changed = TRUE
                 /\ out[q].kind = "exit" /\ out[q].changed = TRUE
                 /\ out[p].result.zone_id # out[q].result.zone_id
                 /\ CreatedZoneIn(zones, p)
                 /\ CreatedZoneIn(zones, q)

\* the race: both listed before either created, both created, both report
\* changed=true, and the provider holds the zone twice
C10_Witness ==
    /\ mode = "concurrent"
    /\ state = "present"
    /\ ListedTogether("p1", "p2")
    /\ Done("p1") /\ Done("p2")
    /\ out["p1"].kind = "exit" /\ out["p1"].changed = TRUE
    /\ out["p2"].kind = "exit" /\ out["p2"].changed = TRUE
    /\ Cardinality(MatchingZones(zones)) = 2

====
